---- MODULE Spec2Model ----
(***************************************************************************)
(* The SecureWatch event ledger: the sw-log ingestion function, the        *)
(* sw_event_log table with its rules and row level security, and the       *)
(* helper views and function that read it.                                 *)
(*                                                                         *)
(* Text is a sequence of one-character strings, so that trim, toLowerCase  *)
(* and the UUID pattern are computed character by character.               *)
(***************************************************************************)
EXTENDS Integers, Sequences, FiniteSets, TLC

\* ------------------------------------------------------------------ bounds
MaxReq == 2              \* ingestion requests received in one behaviour
MaxClock == 2            \* ticks of the database clock
MaxId == 4               \* size of the pool gen_random_uuid() draws from
MinutesPerTick == 10     \* minutes that one tick of the clock stands for
MaxReplay == 1           \* invocations of the replay runner in one behaviour
MaxRun == 1              \* runs of the contract tests in one behaviour
MaxPost == 2             \* scan-execution requests received in one behaviour
MaxArtifact == 2         \* rows of sw_event_artifacts in one behaviour

\* -------------------------------------------------------------------- text
Rep(c, n) == [i \in 1..n |-> c]

UpperLetters == <<"A","B","C","D","E","F","G","H","I","J","K","L","M",
                  "N","O","P","Q","R","S","T","U","V","W","X","Y","Z">>
LowerLetters == <<"a","b","c","d","e","f","g","h","i","j","k","l","m",
                  "n","o","p","q","r","s","t","u","v","w","x","y","z">>

Digits == {"0","1","2","3","4","5","6","7","8","9"}

UpperToLower ==
    [c \in {UpperLetters[i] : i \in 1..26} |->
        LowerLetters[CHOOSE i \in 1..26 : UpperLetters[i] = c]]

\* String.prototype.toLowerCase, one character
LowerChar(c) == IF c \in DOMAIN UpperToLower THEN UpperToLower[c] ELSE c

\* String.prototype.toLowerCase
toLowerCase(s) == [i \in 1..Len(s) |-> LowerChar(s[i])]

WhiteSpace == {" ", "\t", "\n"}

RECURSIVE TrimStart(_)
TrimStart(s) ==
    IF s # <<>> /\ Head(s) \in WhiteSpace THEN TrimStart(Tail(s)) ELSE s

RECURSIVE TrimEnd(_)
TrimEnd(s) ==
    IF s # <<>> /\ s[Len(s)] \in WhiteSpace
    THEN TrimEnd(SubSeq(s, 1, Len(s) - 1)) ELSE s

\* String.prototype.trim
trim(s) == TrimEnd(TrimStart(s))

\* the character class [0-9a-f] under the i flag
HexChar(c) == c \in Digits \/ LowerChar(c) \in {"a","b","c","d","e","f"}

DashAt == {9, 14, 19, 24}

\* the pattern below without its ^ and $ anchors: a match anywhere in the text
UUID_RE_unanchored(s) ==
    /\ Len(s) >= 36
    /\ \E off \in 0..(Len(s) - 36) :
          \A i \in 1..36 :
             IF i \in DashAt THEN s[off + i] = "-" ELSE HexChar(s[off + i])

\* /^[0-9a-f]{8}-[0-9a-f]{4}-[0-9a-f]{4}-[0-9a-f]{4}-[0-9a-f]{12}$/i
UUID_RE(s) ==
    /\ Len(s) = 36
    /\ \A i \in 1..36 :
          IF i \in DashAt THEN s[i] = "-" ELSE HexChar(s[i])

\* ------------------------------------------------------------- JSON values
\* One shape for every JSON value: t is the JS type, s the text of a string.
Absent   == [t |-> "undefined", s |-> <<>>]
JNull    == [t |-> "null",      s |-> <<>>]
JZero    == [t |-> "number",    s |-> <<"0">>]
JNum     == [t |-> "number",    s |-> <<"7">>]
JTrue    == [t |-> "boolean",   s |-> <<"t">>]
JStr(s)  == [t |-> "string",    s |-> s]

\* JS truthiness of a value (!v is its negation)
Truthy(v) ==
    CASE v.t = "undefined" -> FALSE
      [] v.t = "null"      -> FALSE
      [] v.t = "string"    -> v.s # <<>>
      [] v.t = "number"    -> v # JZero
      [] OTHER             -> TRUE

\* ------------------------------------------------------------ sample text
Txt_info  == <<"i","n","f","o">>
Txt_ok    == <<"o","k">>
Txt_error == <<"e","r","r","o","r">>
Txt_ERROR == <<"E","R","R","O","R">>
Txt_warn  == <<"w","a","r","n">>
Txt_n8n   == <<"n","8","n">>
Txt_n8n_padded == <<" ","n","8","n","\t">>
Txt_blank == <<" ","\n">>
workflow_start == <<"w","o","r","k","f","l","o","w",".","s","t","a","r","t">>
workflow_error == <<"w","o","r","k","f","l","o","w",".","e","r","r","o","r">>
tool_call == <<"t","o","o","l",".","c","a","l","l">>
tool_call_padded == <<" ">> \o tool_call \o <<" ">>

Uuid(a, b, c, d, e) ==
    Rep(a, 8) \o <<"-">> \o Rep(b, 4) \o <<"-">> \o Rep(c, 4) \o <<"-">>
              \o Rep(d, 4) \o <<"-">> \o Rep(e, 12)

T1_lower == Uuid("a", "1", "b", "2", "c")
T1_upper == Uuid("A", "1", "B", "2", "C")
T1_mixed == Uuid("A", "1", "b", "2", "C")
T2       == Uuid("1", "1", "1", "1", "1")
T_nothex == Uuid("g", "1", "1", "1", "1")
T_short  == SubSeq(T2, 1, 35)
T_nodash == Rep("1", 36)
T_newline == T2 \o <<"\n">>
T_leading == <<" ">> \o T2

\* ---------------------------------------------------------------- sw-log
\* a loop that forgets the last required field
REQUIRED_FIELDS_no_type == <<"trace_id", "source">>

REQUIRED_FIELDS == <<"trace_id", "source", "event_type">>
VALID_STATUSES == <<Txt_info, Txt_ok, Txt_error>>

\* body[field]: a property read of the parsed JSON value. A number, a string or
\* an array has no such property; reading a property of null throws.
Field(body, f) == IF body.kind = "object" THEN body.fields[f] ELSE Absent

\* !body[field] || typeof body[field] !== "string" || !body[field].trim()
FieldInvalid(v) == ~Truthy(v) \/ v.t # "string" \/ trim(v.s) = <<>>

\* for (const field of REQUIRED_FIELDS): the first field that fails, 0 if none
FirstInvalid(body) ==
    IF \E i \in 1..Len(REQUIRED_FIELDS) : FieldInvalid(Field(body, REQUIRED_FIELDS[i]))
    THEN CHOOSE i \in 1..Len(REQUIRED_FIELDS) :
            /\ FieldInvalid(Field(body, REQUIRED_FIELDS[i]))
            /\ \A j \in 1..(i - 1) : ~FieldInvalid(Field(body, REQUIRED_FIELDS[j]))
    ELSE 0

\* a mutant of StatusOf: the submitted text is stored as it came
StatusOf_passthrough(v) == IF v.t = "string" THEN v.s ELSE Txt_info

\* body.status && VALID_STATUSES.includes(body.status) ? body.status : "info"
StatusOf(v) ==
    IF Truthy(v) /\ v.t = "string"
       /\ \E i \in 1..Len(VALID_STATUSES) : VALID_STATUSES[i] = v.s
    THEN v.s ELSE Txt_info

\* v ?? null
OrNull(v) == IF v.t \in {"undefined", "null"} THEN JNull ELSE v

NoRow ==
    [trace_id |-> <<>>, source |-> <<>>, event_type |-> <<>>, status |-> <<>>,
     req |-> JNull, scan_id |-> JNull, err |-> JNull, meta |-> JNull,
     duration_ms |-> JNull]

\* a JSON number with one decimal, held in tenths, and an integer
JTenths(n) == [t |-> "number", s |-> <<>>, tenths |-> n]
JInt(n) == [t |-> "number", s |-> <<>>, int |-> n]

\* Math.round(x): the nearest integer, a half rounded up
Math_round(tenths) == (tenths + 5) \div 10

\* typeof body.duration_ms === "number" ? Math.round(body.duration_ms) : null
DurationOf(v) ==
    IF v.t = "number" /\ "tenths" \in DOMAIN v THEN JInt(Math_round(v.tenths))
    ELSE JNull

\* const row = { ... }
BuildRow(body) ==
    [trace_id   |-> toLowerCase(Field(body, "trace_id").s),
     source     |-> trim(Field(body, "source").s),
     event_type |-> trim(Field(body, "event_type").s),
     status     |-> StatusOf(Field(body, "status")),
     req        |-> OrNull(Field(body, "req")),
     scan_id    |-> OrNull(Field(body, "scan_id")),
     err        |-> OrNull(Field(body, "err")),
     meta       |-> OrNull(Field(body, "meta")),
     duration_ms |-> DurationOf(Field(body, "duration_ms"))]

Reply(code, error) == [code |-> code, error |-> error, row |-> NoRow]

\* The handler up to the insert: the reply it returns without touching the
\* store, or code 0 and the row it goes on to insert.
Front(method, body, envSet) ==
    CASE method = "OPTIONS" -> Reply(204, "")
      [] method # "POST"    -> Reply(405, "Method not allowed. Use POST.")
      [] body.kind = "unparsable" -> Reply(400, "Invalid JSON body.")
      [] body.kind = "null" -> Reply(500, "uncaught TypeError")
      [] FirstInvalid(body) # 0 ->
            Reply(400, "Missing or invalid required field")
      [] ~UUID_RE(Field(body, "trace_id").s) ->
            Reply(400, "trace_id must be a valid UUID")
      [] ~envSet -> Reply(500, "Server configuration error.")
      [] OTHER -> [code |-> 0, error |-> "", row |-> BuildRow(body)]

\* ------------------------------------------------------------ sw_event_log
VARIABLES
    ledger,       \* sw_event_log: its rows in the order they were inserted
    clock,        \* the database clock, in ticks
    calls,        \* the sw-log invocations, in the order they were received
    last,         \* the outcome of the latest statement sent to the database
    env_set,      \* whether SUPABASE_URL and SUPABASE_SERVICE_ROLE_KEY are set
    connected,    \* the alert channels connected in the alert workflow
    sweeps,       \* the runs of the alert workflow, in order
    replays,      \* the invocations of the replay runner, in order
    runs,         \* the runs of the contract tests, in order
    scans,        \* table scans: the status of each scan
    posts,        \* the invocations of the scan-execution route, in order
    artifacts     \* sw_event_artifacts: its rows in the order they were inserted

\* the event log with its readers, and what stands beside it
logVars == <<ledger, clock, calls, last, env_set, connected, sweeps, replays>>
others == <<runs, scans, posts, artifacts>>
vars == <<logVars, others>>

\* the credential a caller presents to sw-log
Credentials == {"none", "service"}

\* the database roles a statement runs as; "admin" is role authenticated with
\* the JWT claim role = admin, "authenticated" is the same role without it;
\* "postgres" owns the tables, the views and the function.
Roles == {"anon", "authenticated", "admin", "service_role", "postgres"}

\* a trace_id TEXT column would keep the text as written
uuid_in_as_text(s) == s

\* trace_id UUID: the text of a uuid as the column holds and returns it
uuid_in(s) == toLowerCase(s)

Ids(l) == {l[k].id : k \in 1..Len(l)}

\* a table without the primary key takes any id
PrimaryKeyFree_off(l, id) == TRUE

\* id UUID PRIMARY KEY: an insert with an id already in the table is refused
PrimaryKeyFree(l, id) == id \notin Ids(l)

\* the row sw_event_log holds for an inserted row: id and created_at are the
\* column defaults gen_random_uuid() and now()
StoredRow(row, id, now) ==
    [id         |-> id,
     trace_id   |-> uuid_in(row.trace_id),
     source     |-> row.source,
     event_type |-> row.event_type,
     status     |-> row.status,
     req        |-> row.req,
     scan_id    |-> row.scan_id,
     err        |-> row.err,
     meta       |-> row.meta,
     duration_ms |-> row.duration_ms,
     created_at |-> now]

\* what the database answered to the latest statement: the rows of a read,
\* the text (param) or the minutes it was asked with
Statement(op, role, result, rows, param, minutes) ==
    [op |-> op, role |-> role, result |-> result, rows |-> rows,
     param |-> param, minutes |-> minutes]

NoStatement == Statement("none", "none", "none", <<>>, <<>>, 0)

Call(req, f) ==
    [req |-> req, pc |-> IF f.code = 0 THEN "insert" ELSE "done",
     row |-> f.row, now |-> 0, code |-> f.code, error |-> f.error,
     id |-> 0, attempts |-> 0]

\* Deno.serve handler, from the request to the await of the insert. The
\* function is deployed with --no-verify-jwt and the handler never reads the
\* Authorization header, so the credential of the request plays no part.
Admit(req) ==
    /\ Len(calls) < MaxReq
    /\ calls' = Append(calls, Call(req, Front(req.method, req.body, env_set)))

Receive(req) ==
    /\ Admit(req)
    /\ UNCHANGED <<ledger, clock, last, env_set, others, connected, sweeps, replays>>

\* supabase.from("sw_event_log").insert(row): the statement starts its
\* transaction, and now() is the time of that start
TxBegin(i) ==
    /\ calls[i].pc = "insert"
    /\ calls' = [calls EXCEPT ![i].pc = "tx", ![i].now = clock,
                              ![i].attempts = @ + 1]
    /\ UNCHANGED <<ledger, clock, last, env_set, others, connected, sweeps, replays>>

\* DEFAULT gen_random_uuid(): ids are only ever compared for equality, so the
\* draw is either an id the table already holds or, standing for every id it
\* does not hold, the least such id of the pool
Drawn(l) ==
    Ids(l) \cup {id \in 1..MaxId : id \notin Ids(l) /\ \A j \in 1..(id - 1) : j \in Ids(l)}

\* the row is inserted with the drawn id and returned by
\* .select("id").single(): 201 { ok: true, id }; a primary key conflict is an
\* insert error: 500
Commit(i, id) ==
    /\ calls[i].pc = "tx"
    /\ id \in Drawn(ledger)
    /\ IF PrimaryKeyFree(ledger, id)
       THEN /\ ledger' = Append(ledger, StoredRow(calls[i].row, id, calls[i].now))
            /\ calls' = [calls EXCEPT ![i].pc = "done", ![i].code = 201, ![i].id = id]
            /\ last' = Statement("INSERT", "service_role", "1 row", <<>>, <<>>, 0)
       ELSE /\ ledger' = ledger
            /\ calls' = [calls EXCEPT ![i].pc = "done", ![i].code = 500,
                                      ![i].error = "duplicate key value"]
            /\ last' = Statement("INSERT", "service_role", "duplicate key value",
                                 <<>>, <<>>, 0)
    /\ UNCHANGED <<clock, env_set, others, connected, sweeps, replays>>

\* a handler that tries the insert again after an error
InsertError_retry(i) ==
    /\ calls[i].pc = "tx"
    /\ calls' = [calls EXCEPT ![i].pc = "insert"]
    /\ UNCHANGED <<ledger, clock, last, env_set, others, connected, sweeps, replays>>

\* if (error): the store is unreachable or refuses the statement: 500
InsertError(i) ==
    /\ calls[i].pc = "tx"
    /\ calls' = [calls EXCEPT ![i].pc = "done", ![i].code = 500,
                              ![i].error = "insert error"]
    /\ UNCHANGED <<ledger, clock, last, env_set, others, connected, sweeps, replays>>

Tick ==
    /\ clock < MaxClock
    /\ clock' = clock + 1
    /\ UNCHANGED <<ledger, calls, last, env_set, others, connected, sweeps, replays>>

\* ------------------------------------------------- rules, row level security
\* a schema without the two rules
InsteadNothing_none == {}

\* CREATE RULE sw_event_log_no_update AS ON UPDATE ... DO INSTEAD NOTHING
\* CREATE RULE sw_event_log_no_delete AS ON DELETE ... DO INSTEAD NOTHING
InsteadNothing == {"UPDATE", "DELETE"}

\* ENABLE ROW LEVEL SECURITY binds neither the service role nor the owner
BypassRLS(role) == role \in {"service_role", "postgres"}

\* POLICY admin_select FOR SELECT TO authenticated USING (role claim = admin)
admin_select(role) == role = "admin"

\* the rows of the table a SELECT run as role sees
Visible(l, role) ==
    IF BypassRLS(role) \/ admin_select(role) THEN l ELSE <<>>

\* UPDATE sw_event_log SET status = st WHERE id = (the id of row k); no policy
\* is FOR UPDATE, so only a role that bypasses row security reaches a row
ExecUpdate(l, role, k, st) ==
    IF "UPDATE" \in InsteadNothing THEN l
    ELSE IF BypassRLS(role) THEN [l EXCEPT ![k].status = st] ELSE l

\* DELETE FROM sw_event_log WHERE id = (the id of row k)
ExecDelete(l, role, k) ==
    IF "DELETE" \in InsteadNothing THEN l
    ELSE IF BypassRLS(role)
         THEN [j \in 1..(Len(l) - 1) |-> IF j < k THEN l[j] ELSE l[j + 1]]
         ELSE l

Affected(before, after) == IF before = after THEN "0 rows" ELSE "1 row"

RawUpdate(role, k, st) ==
    /\ k \in 1..Len(ledger)
    /\ ledger' = ExecUpdate(ledger, role, k, st)
    /\ last' = Statement("UPDATE", role, Affected(ledger, ledger'), <<>>, <<>>, 0)
    /\ UNCHANGED <<clock, calls, env_set, others, connected, sweeps, replays>>

RawDelete(role, k) ==
    /\ k \in 1..Len(ledger)
    /\ ledger' = ExecDelete(ledger, role, k)
    /\ last' = Statement("DELETE", role, Affected(ledger, ledger'), <<>>, <<>>, 0)
    /\ UNCHANGED <<clock, calls, env_set, others, connected, sweeps, replays>>

\* ------------------------------------------------------------------ reads
\* ORDER BY created_at ASC (dir = 1) or DESC (dir = -1) of the rows of l at the
\* indexes K: every order the sort may return, rows of equal created_at in
\* any order
RECURSIVE Ordered(_, _, _)
Ordered(l, K, dir) ==
    IF K = {} THEN {<<>>}
    ELSE LET first == {k \in K : \A j \in K :
                         dir * l[k].created_at <= dir * l[j].created_at}
         IN UNION {{<<l[k]>> \o rest : rest \in Ordered(l, K \ {k}, dir)} :
                     k \in first}

\* a query that forgets the status filter
IsError_any(r) == TRUE

\* WHERE l.status = 'error'
IsError(r) == r.status = Txt_error

\* minutes INT DEFAULT 15
minutes_DEFAULT == 15

\* a query that forgets the window
Since_unbounded(r, now, minutes) == TRUE

\* the columns a view or a function selects, of those the model keeps (the
\* view calls id event_id)
TimelineColumns == {"trace_id", "id", "created_at", "source", "event_type", "status"}
ErrorsSinceColumns == {"trace_id", "source", "event_type", "created_at"}
Project(r, cols) == [f \in cols |-> r[f]]
ProjectAll(rows, cols) == [i \in 1..Len(rows) |-> Project(rows[i], cols)]

\* created_at >= now() - (minutes || ' minutes')::INTERVAL
Since(r, now, minutes) ==
    r.created_at * MinutesPerTick >= now * MinutesPerTick - minutes

\* The views name no security_invoker and the function is SECURITY DEFINER:
\* each reads the table as its owner, whoever calls it.
OwnerOf(object) == "postgres"

\* SELECT * FROM v_trace_timeline WHERE trace_id = p
ReadTimeline(role, p) ==
    /\ IF UUID_RE(p)
       THEN LET l == Visible(ledger, OwnerOf("v_trace_timeline"))
                u == uuid_in(p)
                K == {k \in 1..Len(l) : l[k].trace_id = u}
            IN \E rows \in Ordered(l, K, 1) :
                  last' = Statement("v_trace_timeline", role, "ok",
                                    ProjectAll(rows, TimelineColumns), p, 0)
       ELSE last' = Statement("v_trace_timeline", role,
                              "invalid input syntax for type uuid", <<>>, p, 0)
    /\ UNCHANGED <<ledger, clock, calls, env_set, others, connected, sweeps, replays>>

\* SELECT ... FROM sw_event_log WHERE trace_id = p ORDER BY created_at ASC
TableRows(role, p) ==
    LET l == Visible(ledger, role)
        u == uuid_in(p)
        K == {k \in 1..Len(l) : l[k].trace_id = u}
    IN Ordered(l, K, 1)

ReadTable(role, p) ==
    /\ UUID_RE(p)
    /\ \E rows \in TableRows(role, p) :
          last' = Statement("sw_event_log", role, "ok", rows, p, 0)
    /\ UNCHANGED <<ledger, clock, calls, env_set, others, connected, sweeps, replays>>

\* SELECT * FROM v_recent_errors: status = 'error' in the last 24 hours
ReadRecentErrors(role) ==
    /\ LET l == Visible(ledger, OwnerOf("v_recent_errors"))
           K == {k \in 1..Len(l) :
                   l[k].status = Txt_error /\ Since(l[k], clock, 24 * 60)}
       IN \E rows \in Ordered(l, K, -1) :
             last' = Statement("v_recent_errors", role, "ok", rows, <<>>, 0)
    /\ UNCHANGED <<ledger, clock, calls, env_set, others, connected, sweeps, replays>>

\* the body of sw_event_log_errors_since: every sequence of rows it may return
ErrorsSince(minutes) ==
    LET l == Visible(ledger, OwnerOf("sw_event_log_errors_since"))
        K == {k \in 1..Len(l) : IsError(l[k]) /\ Since(l[k], clock, minutes)}
    IN {ProjectAll(rows, ErrorsSinceColumns) : rows \in Ordered(l, K, -1)}

\* SELECT * FROM sw_event_log_errors_since(minutes)
ReadErrorsSince(role, minutes) ==
    /\ \E rows \in ErrorsSince(minutes) :
          last' = Statement("sw_event_log_errors_since", role, "ok", rows,
                            <<>>, minutes)
    /\ UNCHANGED <<ledger, clock, calls, env_set, others, connected, sweeps, replays>>

\* SELECT * FROM sw_event_log_errors_since()
ReadErrorsSinceDefault(role) == ReadErrorsSince(role, minutes_DEFAULT)

ReadOps == {"v_trace_timeline", "v_recent_errors", "sw_event_log_errors_since"}

\* ------------------------------------------------------- the alert workflow
\* the Slack node and the Email node of SW_ALERT_CRON
Channels == {"slack", "email"}

\* ALERT_WINDOW_MINUTES: how far back the alert cron looks
ALERT_WINDOW_MINUTES == 15

\* a workflow whose nodes are chained: the Email node runs only when the Slack
\* node did not fail
Dispatch_chained(conn, outcome) ==
    [c \in Channels |->
       CASE c \notin conn -> "off"
         [] c = "email" /\ "slack" \in conn /\ outcome["slack"] = "failed" -> "skipped"
         [] OTHER -> outcome[c]]

\* the summary goes to every connected channel, whatever becomes of the others
Dispatch(conn, outcome) ==
    [c \in Channels |-> IF c \in conn THEN outcome[c] ELSE "off"]

NoDispatch == [c \in Channels |-> "none"]

\* One run of the alert workflow: the schedule fires, the workflow calls
\* sw_event_log_errors_since(ALERT_WINDOW_MINUTES) with the service role key
\* and, when rows came back, sends the summary to the connected channels.
\* It reads nothing of its earlier runs. The schedule fires once in a tick of
\* the clock.
Sweep ==
    /\ IF sweeps = <<>> THEN TRUE ELSE sweeps[Len(sweeps)].at < clock
    /\ \E rows \in ErrorsSince(ALERT_WINDOW_MINUTES),
          outcome \in [Channels -> {"sent", "failed"}] :
          /\ rows # <<>> \/ \A c \in Channels : outcome[c] = "sent"
          /\ sweeps' = Append(sweeps,
                [at       |-> clock,
                 queries  |-> 1,
                 rows     |-> rows,
                 dispatch |-> IF rows = <<>> THEN NoDispatch
                              ELSE Dispatch(connected, outcome),
                 result   |-> "success"])
          /\ last' = Statement("sw_event_log_errors_since", "service_role", "ok",
                               rows, <<>>, ALERT_WINDOW_MINUTES)
    /\ UNCHANGED <<ledger, clock, calls, env_set, others, connected, replays>>

\* ------------------------------------------------------------ the requests
ObjReq(t, s, e, st, rq) ==
    [kind |-> "object",
     fields |-> [trace_id |-> t, source |-> s, event_type |-> e, status |-> st,
                 req |-> rq, scan_id |-> Absent, err |-> Absent, meta |-> Absent,
                 duration_ms |-> Absent]]

\* the same body with one more property
WithField(body, f, v) == [body EXCEPT !.fields[f] = v]

Obj(t, s, e, st) == ObjReq(t, s, e, st, Absent)

\* a body that is no JSON text, the JSON null, or a JSON number, string or array
NonObj(kind) ==
    [kind |-> kind,
     fields |-> [trace_id |-> Absent, source |-> Absent,
                 event_type |-> Absent, status |-> Absent, req |-> Absent,
                 scan_id |-> Absent, err |-> Absent, meta |-> Absent,
                 duration_ms |-> Absent]]

Body_start   == Obj(JStr(T1_mixed), JStr(Txt_n8n_padded), JStr(workflow_start), Absent)
Body_error   == Obj(JStr(T1_upper), JStr(Txt_n8n), JStr(workflow_error), JStr(Txt_error))
Body_call    == Obj(JStr(T2), JStr(Txt_n8n), JStr(tool_call_padded), JStr(Txt_warn))
Body_notype  == Obj(JStr(T1_lower), JStr(Txt_n8n), Absent, JStr(Txt_ok))


Req(m, c, b) == [method |-> m, cred |-> c, body |-> b]

Requests ==
    {Req("POST", c, Body_start) : c \in Credentials}
       \cup {Req("POST", "service", Body_error),
             Req("POST", "service", Body_notype), Req("POST", "service", NonObj("null")),
             Req("GET", "service", Body_start), Req("OPTIONS", "none", NonObj("unparsable"))}

Statuses == {Txt_info, Txt_ok, Txt_error}

\* who sends a raw UPDATE or DELETE: the caller that row level security lets
\* through
RawRoles == {"service_role"}

\* ------------------------------------------------------ the replay runner
JObj(name) == [t |-> "object", s |-> name]
Payload_scan == JObj(<<"s","c","a","n">>)
Payload_ip   == JObj(<<"i","p">>)
T_fresh == Uuid("9", "9", "9", "9", "9")

\* 4a. workflow.start and 4b. tool.call as the workflows log them
Body_root == ObjReq(JStr(T1_mixed), JStr(Txt_n8n), JStr(workflow_start), JStr(Txt_info),
                    Payload_scan)
Body_tool == ObjReq(JStr(T1_lower), JStr(Txt_n8n), JStr(tool_call), JStr(Txt_info),
                    Payload_ip)

\* a node that always starts a new trace
GenerateTraceId_fresh(body, random) == JStr(random)

\* "Generate trace_id" Code node: body.trace_id || randomUUID()
GenerateTraceId(body, random) ==
    IF Truthy(body.trace_id) THEN body.trace_id ELSE JStr(random)

\* a runner that takes the latest event with a req
RootOf_latest(timeline) ==
    IF \A i \in 1..Len(timeline) : timeline[i].req = JNull THEN 0
    ELSE CHOOSE i \in 1..Len(timeline) :
            /\ timeline[i].req # JNull
            /\ \A j \in (i + 1)..Len(timeline) : timeline[j].req = JNull

\* the root event: the first event of the timeline that carries a req, 0 if
\* there is none
RootOf(timeline) ==
    IF \A i \in 1..Len(timeline) : timeline[i].req = JNull THEN 0
    ELSE CHOOSE i \in 1..Len(timeline) :
            /\ timeline[i].req # JNull
            /\ \A j \in 1..(i - 1) : timeline[j].req = JNull

\* how an invocation ends; net is what becomes of the one POST
ReplayOutcome(timeline, dry, net) ==
    CASE timeline = <<>>       -> "NotFoundError"
      [] RootOf(timeline) = 0  -> "IncompleteTraceError"
      [] dry                   -> "dry-run"
      [] OTHER                 -> net

\* a runner that posts again after a failed POST
OutboundCalls_retry(outcome) ==
    CASE outcome = "sent" -> 1 [] outcome = "failed" -> 2 [] OTHER -> 0

\* the POSTs an invocation makes
OutboundCalls(outcome) == IF outcome \in {"sent", "failed"} THEN 1 ELSE 0

NoRequest == [trace_id |-> Absent, payload |-> JNull]

\* the request the runner builds: the root's req with the trace_id it was
\* invoked with
ReplayRequest(p, timeline) ==
    IF timeline = <<>> \/ RootOf(timeline) = 0 THEN NoRequest
    ELSE [trace_id |-> JStr(p), payload |-> timeline[RootOf(timeline)].req]

\* python replay_runner.py --trace-id p [--dry-run]: fetch the events of the
\* trace from sw_event_log with the service role key, take the root request,
\* and POST it to the webhook, or print it
Replay(p, dry) ==
    /\ Len(replays) < MaxReplay
    /\ UUID_RE(p)
    /\ \E timeline \in TableRows("service_role", p), net \in {"sent", "failed"} :
          LET outcome == ReplayOutcome(timeline, dry, net)
          IN /\ net = "sent" \/ outcome = "failed"
             /\ replays' = Append(replays,
                   [trace    |-> p,
                    dry      |-> dry,
                    timeline |-> timeline,
                    outcome  |-> outcome,
                    request  |-> ReplayRequest(p, timeline),
                    posts    |-> OutboundCalls(outcome),
                    run      |-> 0])
             /\ last' = Statement("sw_event_log", "service_role", "ok", timeline, p, 0)
    /\ UNCHANGED <<ledger, clock, calls, env_set, others, connected, sweeps>>

\* The webhook of the workflow receives the POST of replay k: the Generate
\* trace_id node runs and the workflow logs 4a. workflow.start through sw-log.
WorkflowStart(k) ==
    /\ replays[k].outcome = "sent" /\ replays[k].run = 0
    /\ Admit(Req("POST", "service",
                 ObjReq(GenerateTraceId(replays[k].request, T_fresh), JStr(Txt_n8n),
                        JStr(workflow_start), JStr(Txt_info),
                        replays[k].request.payload)))
    /\ replays' = [replays EXCEPT ![k].run = Len(calls) + 1]
    /\ UNCHANGED <<ledger, clock, last, env_set, others, connected, sweeps>>

\* ------------------------------------------------------ the contract tests
workflow_complete ==
    <<"w","o","r","k","f","l","o","w",".","c","o","m","p","l","e","t","e">>
tool_result == <<"t","o","o","l",".","r","e","s","u","l","t">>
health_check == <<"h","e","a","l","t","h",".","c","h","e","c","k">>
Txt_contract_tests == <<"c","o","n","t","r","a","c","t","_","t","e","s","t","s">>
Txt_boom == <<"b","o","o","m">>
Scan_A == <<"S","C","A","N","-","A">>
Scan_B == <<"S","C","A","N","-","B">>
T_health == Uuid("0", "0", "0", "0", "0")

\* err: { message }, and meta: { fixture_mode: true }
JErr(message) == [t |-> "object", s |-> <<"e","r","r">>, message |-> message]
Meta_fixture == JObj(<<"f","i","x","t","u","r","e">>)

\* err.message of a stored event, null when err is null or has no message
MessageOf(r) ==
    IF r.err.t = "object" /\ "message" \in DOMAIN r.err THEN OrNull(r.err.message)
    ELSE JNull

OfType(rows, types) == {i \in 1..Len(rows) : rows[i].event_type \in types}

\* 1. At least one event exists for the trace_id
Check1(rows) == rows # <<>>

\* 2. A workflow.start event exists (test_workflow_start_present)
Check2(rows) == OfType(rows, {workflow_start}) # {}

\* 3. At least one activity event (tool.call or tool.result) exists
Check3(rows) == OfType(rows, {tool_call, tool_result}) # {}

\* 4. A terminal event (workflow.complete or workflow.error) exists
\* (test_terminal_event_present) and there is only one
\* (test_only_one_terminal_event)
Check4(rows) == Cardinality(OfType(rows, {workflow_complete, workflow_error})) = 1

\* 5. workflow.error events have a non-null err.message
Check5(rows) ==
    \A i \in OfType(rows, {workflow_error}) : MessageOf(rows[i]) # JNull

\* a test that compares the scan_id of every two events, null or not
Check6_nulls_count(rows) ==
    \A i, j \in 1..Len(rows) : rows[i].scan_id = rows[j].scan_id

\* 6. All events with a scan_id share the same value
Check6(rows) ==
    \A i, j \in 1..Len(rows) :
       rows[i].scan_id # JNull /\ rows[j].scan_id # JNull
          => rows[i].scan_id = rows[j].scan_id

\* 7. Events are ordered by created_at (non-decreasing)
Check7(rows) ==
    \A i \in 1..(Len(rows) - 1) : rows[i].created_at <= rows[i + 1].created_at

\* 8. If FIXTURE_MODE=true, all events record meta.fixture_mode = true
Check8(rows) == \A i \in 1..Len(rows) : rows[i].meta = Meta_fixture

\* a health check that logs its event under the trace it was given
Body_health_in_trace ==
    Obj(JStr(T1_lower), JStr(Txt_contract_tests), JStr(health_check), JStr(Txt_info))

\* the valid event of the health check, of a trace of its own
Body_health ==
    Obj(JStr(T_health), JStr(Txt_contract_tests), JStr(health_check), JStr(Txt_info))

Checks == 1..9

\* what each test finds: the eight tests on the events read, FIXTURE_MODE
\* deciding whether the eighth runs, and the answer of sw-log to the ninth
Holds(c, rows, code) ==
    CASE c = 1 -> Check1(rows)  [] c = 2 -> Check2(rows)
      [] c = 3 -> Check3(rows)  [] c = 4 -> Check4(rows)
      [] c = 5 -> Check5(rows)  [] c = 6 -> Check6(rows)
      [] c = 7 -> Check7(rows)  [] c = 8 -> Check8(rows)
      [] OTHER -> code = 201

Verdict(rows, fixture, code) ==
    [c \in Checks |->
       CASE c = 8 /\ ~fixture   -> "SKIPPED"
         [] Holds(c, rows, code) -> "PASSED"
         [] OTHER                -> "FAILED"]

FirstFailed(verdict) ==
    IF \A c \in Checks : verdict[c] # "FAILED" THEN 0
    ELSE CHOOSE c \in Checks :
            verdict[c] = "FAILED" /\ \A d \in 1..(c - 1) : verdict[d] # "FAILED"

\* a run that stops at the first failure whether -x was given or not
Report_halts(verdict, failFast) ==
    LET first == FirstFailed(verdict)
    IN [c \in Checks |-> IF first # 0 /\ c > first THEN "not run" ELSE verdict[c]]

\* pytest contract_tests.py -v runs every test and lists each outcome; with
\* -x it stops at the first failure
Report(verdict, failFast) ==
    LET first == FirstFailed(verdict)
    IN [c \in Checks |->
          IF failFast /\ first # 0 /\ c > first THEN "not run" ELSE verdict[c]]

\* PASS: the trace satisfies all invariants; FAIL when a test failed
Overall(report) ==
    IF \E c \in Checks : report[c] = "FAILED" THEN "FAIL" ELSE "PASS"

\* TRACE_ID=p [FIXTURE_MODE=true] pytest contract_tests.py -v [-x]: the events
\* of the trace are fetched with the service role key, the tests run in the
\* order of the table, and the ninth posts its valid event to sw-log, which
\* inserts it as it inserts any event.
Verify(p, failFast, fixture) ==
    /\ Len(runs) < MaxRun
    /\ UUID_RE(p)
    /\ \E rows \in TableRows("service_role", p), id \in Drawn(ledger),
          net \in {"ok", "insert error"}, f \in {Front("POST", Body_health, env_set)} :
          \E reached \in {~failFast \/ FirstFailed(Verdict(rows, fixture, 201)) \in {0, 9}} :
          \E code \in {CASE ~reached -> 0
                         [] f.code # 0 -> f.code
                         [] net = "insert error" -> 500
                         [] ~PrimaryKeyFree(ledger, id) -> 500
                         [] OTHER -> 201} :
          \E verdict \in {Verdict(rows, fixture, code)} :
          \E report \in {Report(verdict, failFast)} :
             /\ reached \/ (net = "ok" /\ id = CHOOSE x \in Drawn(ledger) : TRUE)
             /\ ledger' = IF code = 201
                           THEN Append(ledger, StoredRow(f.row, id, clock))
                           ELSE ledger
             /\ calls' = IF reached
                          THEN Append(calls,
                                 [Call(Req("POST", "service", Body_health), f)
                                    EXCEPT !.pc = "done", !.now = clock,
                                           !.code = code,
                                           !.id = IF code = 201 THEN id ELSE 0,
                                           !.error = IF code = 500 /\ f.code = 0
                                                     THEN "insert error" ELSE f.error,
                                           !.attempts = IF f.code = 0 THEN 1 ELSE 0])
                          ELSE calls
             /\ last' = IF code = 201
                         THEN Statement("INSERT", "service_role", "1 row", <<>>, <<>>, 0)
                         ELSE Statement("sw_event_log", "service_role", "ok", rows, p, 0)
             /\ runs' = Append(runs,
                   [trace    |-> p,
                    failFast |-> failFast,
                    fixture  |-> fixture,
                    rows     |-> rows,
                    report   |-> report,
                    overall  |-> Overall(report),
                    code     |-> code])
    /\ UNCHANGED <<clock, env_set, connected, sweeps, replays, scans, posts, artifacts>>

\* ------------------------------------------------- the scan-execution route
\* process.env of the deployment: the webhooks of agent 1 and agent 2 are
\* set, the one of agent 3 is not
process_env ==
    [N8N_WEBHOOK_AGENT_1 |-> "https://n8n/agent-1",
     N8N_WEBHOOK_AGENT_2 |-> "https://n8n/agent-2",
     N8N_WEBHOOK_AGENT_3 |-> "undefined"]

\* process.env.X ?? ''
OrEmpty(v) == IF v = "undefined" THEN "" ELSE v

N8N_WEBHOOKS ==
    [vulnerability    |-> OrEmpty(process_env.N8N_WEBHOOK_AGENT_2),
     compliance       |-> OrEmpty(process_env.N8N_WEBHOOK_AGENT_3),
     penetration_test |-> OrEmpty(process_env.N8N_WEBHOOK_AGENT_1),
     web_application  |-> OrEmpty(process_env.N8N_WEBHOOK_AGENT_1),
     network          |-> OrEmpty(process_env.N8N_WEBHOOK_AGENT_1)]

\* the properties every object literal inherits from Object.prototype
ObjectPrototype == {"constructor", "toString", "valueOf", "hasOwnProperty"}

\* N8N_WEBHOOKS[scanType]: the own property, an inherited one (a function),
\* or undefined
WebhookOf(scanType) ==
    CASE scanType \in DOMAIN N8N_WEBHOOKS -> N8N_WEBHOOKS[scanType]
      [] scanType \in ObjectPrototype    -> "function"
      [] OTHER                           -> "undefined"

\* !v of a string property or of a missing one
Falsy(v) == v \in {"", "undefined"}

\* the body of a request: an object with its three properties, the JSON
\* null, or no JSON at all
ScanBody(scanId, scanType, target) ==
    [kind |-> "object", scanId |-> scanId, scanType |-> scanType, target |-> target]
ScanNonObj(kind) ==
    [kind |-> kind, scanId |-> "undefined", scanType |-> "undefined",
     target |-> "undefined"]

\* POST, from request.json() to the first await of a database update: the
\* reply of a request that is turned away, or pc mark_running. A body that is
\* no JSON, or null, throws before scanId is set: the catch block replies
\* 500 without an update.
ScanFront(body) ==
    CASE body.kind # "object" ->
            [pc |-> "done", code |-> 500, success |-> FALSE]
      [] Falsy(body.scanId) \/ Falsy(body.scanType) \/ Falsy(body.target) ->
            [pc |-> "done", code |-> 400, success |-> FALSE]
      [] Falsy(WebhookOf(body.scanType)) ->
            [pc |-> "done", code |-> 400, success |-> FALSE]
      [] OTHER ->
            [pc |-> "mark_running", code |-> 0, success |-> FALSE]

ScanPost(body) ==
    /\ Len(posts) < MaxPost
    /\ posts' = Append(posts,
          [body |-> body, pc |-> ScanFront(body).pc, code |-> ScanFront(body).code,
           success |-> ScanFront(body).success, updates |-> 0, hooks |-> 0,
           answer |-> "none"])
    /\ UNCHANGED <<logVars, runs, scans, artifacts>>

\* await supabase.from('scans').update({ status }).eq('id', scanId): the
\* result is not read, so an update the database refuses changes nothing
\* and the handler goes on
UpdateStatus(table, scanId, status, db) ==
    IF db = "ok" /\ scanId \in DOMAIN table
    THEN [table EXCEPT ![scanId] = status] ELSE table

\* Mark scan as running
MarkRunning(i, db) ==
    /\ posts[i].pc = "mark_running"
    /\ scans' = UpdateStatus(scans, posts[i].body.scanId, "running", db)
    /\ posts' = [posts EXCEPT ![i].pc = "fetch", ![i].updates = @ + 1]
    /\ UNCHANGED <<logVars, runs, artifacts>>

\* what the n8n webhook does with the call: no answer (network error), or an
\* answer with a status and a body that is JSON or is not
WebhookAnswers ==
    {"network error", "2xx json", "2xx text", "5xx json", "5xx text"}

\* fetch(webhookUrl), webhookRes.json() and, when that throws,
\* webhookRes.text() on the body json() has consumed, which throws in turn;
\* then if (!webhookRes.ok) throw. A webhookUrl that is no URL (a function)
\* makes fetch throw before a request is made.
CallWebhook(i, answer) ==
    /\ posts[i].pc = "fetch"
    /\ IF WebhookOf(posts[i].body.scanType) = "function"
       THEN /\ answer = "network error"
            /\ posts' = [posts EXCEPT ![i].pc = "catch"]
       ELSE posts' = [posts EXCEPT ![i].pc = IF answer = "2xx json"
                                             THEN "mark_completed" ELSE "catch",
                                   ![i].hooks = @ + 1,
                                   ![i].answer = answer]
    /\ UNCHANGED <<logVars, runs, scans, artifacts>>

\* Mark scan as completed with webhook result, and reply 200 success: true
MarkCompleted(i, db) ==
    /\ posts[i].pc = "mark_completed"
    /\ scans' = UpdateStatus(scans, posts[i].body.scanId, "completed", db)
    /\ posts' = [posts EXCEPT ![i].pc = "done", ![i].code = 200,
                              ![i].success = TRUE, ![i].updates = @ + 1]
    /\ UNCHANGED <<logVars, runs, artifacts>>

\* catch (error): if (scanId) mark the scan failed; reply 500 success: false
CatchError(i, db) ==
    /\ posts[i].pc = "catch"
    /\ scans' = UpdateStatus(scans, posts[i].body.scanId, "failed", db)
    /\ posts' = [posts EXCEPT ![i].pc = "done", ![i].code = 500,
                              ![i].success = FALSE, ![i].updates = @ + 1]
    /\ UNCHANGED <<logVars, runs, artifacts>>

\* ------------------------------------------------------ sw_event_artifacts
\* POLICY service_role_insert FOR INSERT TO service_role WITH CHECK (true)
service_role_insert(role) == role = "service_role"

\* CREATE RULE sw_event_artifacts_no_update AS ON UPDATE ... DO INSTEAD NOTHING
\* CREATE RULE sw_event_artifacts_no_delete AS ON DELETE ... DO INSTEAD NOTHING
ArtifactInsteadNothing == {"UPDATE", "DELETE"}

\* event_id UUID NOT NULL REFERENCES public.sw_event_log(id)
References(l, event_id) == event_id \in Ids(l)

\* the row sw_event_artifacts holds for an insert of (event_id, trace_id):
\* trace_id UUID NOT NULL is a column of its own, id and created_at are the
\* column defaults
ArtifactRow(id, event_id, trace, now) ==
    [id |-> id, event_id |-> event_id, trace_id |-> uuid_in(trace), created_at |-> now]

\* INSERT INTO sw_event_artifacts (event_id, trace_id, ...) VALUES (...)
InsertArtifact(role, id, event_id, trace) ==
    /\ Len(artifacts) < MaxArtifact
    /\ id \in Drawn(artifacts)
    /\ UUID_RE(trace)
    /\ LET refused ==
              CASE ~(BypassRLS(role) \/ service_role_insert(role)) ->
                      "new row violates row-level security policy"
                [] ~References(ledger, event_id) -> "violates foreign key constraint"
                [] ~PrimaryKeyFree(artifacts, id) -> "duplicate key value"
                [] OTHER -> ""
       IN /\ artifacts' = IF refused = ""
                           THEN Append(artifacts, ArtifactRow(id, event_id, trace, clock))
                           ELSE artifacts
          /\ last' = Statement("INSERT artifact", role,
                               IF refused = "" THEN "1 row" ELSE refused,
                               <<>>, trace, 0)
    /\ UNCHANGED <<ledger, clock, calls, env_set, connected, sweeps, replays,
                   runs, scans, posts>>

\* UPDATE sw_event_artifacts SET trace_id = trace WHERE id = (the id of row k)
UpdateArtifact(role, k, trace) ==
    /\ k \in 1..Len(artifacts)
    /\ artifacts' = IF "UPDATE" \in ArtifactInsteadNothing \/ ~BypassRLS(role) THEN artifacts
                    ELSE [artifacts EXCEPT ![k].trace_id = uuid_in(trace)]
    /\ last' = Statement("UPDATE artifact", role, Affected(artifacts, artifacts'),
                         <<>>, trace, 0)
    /\ UNCHANGED <<ledger, clock, calls, env_set, connected, sweeps, replays,
                   runs, scans, posts>>

\* DELETE FROM sw_event_artifacts WHERE id = (the id of row k)
DeleteArtifact(role, k) ==
    /\ k \in 1..Len(artifacts)
    /\ artifacts' = IF "DELETE" \in ArtifactInsteadNothing \/ ~BypassRLS(role) THEN artifacts
                    ELSE [j \in 1..(Len(artifacts) - 1) |->
                            IF j < k THEN artifacts[j] ELSE artifacts[j + 1]]
    /\ last' = Statement("DELETE artifact", role, Affected(artifacts, artifacts'),
                         <<>>, <<>>, 0)
    /\ UNCHANGED <<ledger, clock, calls, env_set, connected, sweeps, replays,
                   runs, scans, posts>>

\* ---------------------------------------------------------- specification
\* nothing has run the contract tests, no scan is known to the route and no
\* artifact is stored
NoOthers ==
    /\ runs = <<>>
    /\ scans = [s \in {} |-> "none"]
    /\ posts = <<>>
    /\ artifacts = <<>>

\* no invocation of sw-log is in flight
Idle == \A i \in 1..Len(calls) : calls[i].pc = "done"

Init ==
    /\ ledger = <<>>
    /\ clock = 0
    /\ calls = <<>>
    /\ last = NoStatement
    /\ env_set \in BOOLEAN
    /\ connected = {}
    /\ sweeps = <<>>
    /\ replays = <<>>
    /\ NoOthers

Next ==
    \/ \E r \in Requests : Receive(r)
    \/ \E i \in 1..Len(calls) : TxBegin(i)
    \/ \E i \in 1..Len(calls), id \in 1..MaxId : Commit(i, id)
    \/ \E i \in 1..Len(calls) : InsertError(i)
    \/ Tick
    \/ \E role \in RawRoles, k \in 1..Len(ledger) : Idle /\ RawUpdate(role, k, Txt_ok)
    \/ \E role \in RawRoles, k \in 1..Len(ledger) : Idle /\ RawDelete(role, k)

Spec == Init /\ [][Next]_vars

\* One producer at a time, and the operators' reads.
TraceParams == {T1_lower, T1_upper, T1_mixed, T_short}

\* who reads: a caller without the admin claim, and one with it
Readers == {"anon", "admin"}
\* the windows a caller asks for, in minutes, besides the default
Windows == {5, -5}

InitQ ==
    /\ ledger = <<>>
    /\ clock = 0
    /\ calls = <<>>
    /\ last = NoStatement
    /\ env_set = TRUE
    /\ connected = {}
    /\ sweeps = <<>>
    /\ replays = <<>>
    /\ NoOthers

NextQ ==
    \/ Idle /\ \E b \in {Body_error, Body_call} : Receive(Req("POST", "service", b))
    \/ \E i \in 1..Len(calls) : TxBegin(i)
    \/ \E i \in 1..Len(calls), id \in 1..MaxId : Commit(i, id)
    \/ Tick
    \/ \E role \in Readers, m \in Windows : ReadErrorsSince(role, m)
    \/ \E role \in Readers : ReadErrorsSinceDefault(role)
    \/ \E role \in Readers : ReadRecentErrors(role)
    \/ \E role \in Readers, p \in TraceParams : ReadTimeline(role, p)
    \/ \E role \in Readers : ReadTable(role, T1_lower)

SpecQ == InitQ /\ [][NextQ]_vars

\* One request at a time, its body drawn from every combination of the sample
\* values of the four fields the validator and the status rule read.
TraceVals ==
    {Absent, JNull, JNum, JStr(<<>>), JStr(Txt_blank), JStr(T1_lower), JStr(T1_upper),
     JStr(T1_mixed), JStr(T2), JStr(T_nothex), JStr(T_short), JStr(T_nodash),
     JStr(T_newline), JStr(T_leading)}
SourceVals ==
    {Absent, JNull, JZero, JTrue, JStr(<<>>), JStr(Txt_blank), JStr(Txt_n8n),
     JStr(Txt_n8n_padded)}
TypeVals ==
    {Absent, JNum, JStr(<<>>), JStr(Txt_blank), JStr(workflow_start),
     JStr(tool_call_padded)}
StatusVals ==
    {Absent, JNull, JZero, JTrue, JStr(<<>>), JStr(Txt_info), JStr(Txt_ok),
     JStr(Txt_error), JStr(Txt_ERROR), JStr(Txt_warn)}

\* duration_ms: missing, null, 0, 7, 2.5, -0.4, -2.5, -5, "7", true
DurationVals ==
    {Absent, JNull, JTenths(0), JTenths(70), JTenths(25), JTenths(-4), JTenths(-25),
     JTenths(-50), JStr(<<"7">>), JTrue}

AllBodies ==
    {Obj(t, s, e, st) : t \in TraceVals, s \in SourceVals, e \in TypeVals, st \in StatusVals}
       \cup {NonObj("unparsable"), NonObj("null"), NonObj("other")}
       \cup {WithField(Body_start, "duration_ms", d) : d \in DurationVals}

NextV ==
    \/ calls = <<>> /\ \E b \in AllBodies : Receive(Req("POST", "service", b))
    \/ \E i \in 1..Len(calls) : TxBegin(i)
    \/ \E i \in 1..Len(calls), id \in 1..MaxId : Commit(i, id)
    \/ \E i \in 1..Len(calls) : InsertError(i)

SpecV == Init /\ [][NextV]_vars

\* One producer at a time, the clock, and the alert workflow on its schedule,
\* with any of its channels connected.
InitA ==
    /\ ledger = <<>>
    /\ clock = 0
    /\ calls = <<>>
    /\ last = NoStatement
    /\ env_set = TRUE
    /\ connected \in SUBSET Channels
    /\ sweeps = <<>>
    /\ replays = <<>>
    /\ NoOthers

NextA ==
    \/ Idle /\ \E b \in {Body_error, Body_call} : Receive(Req("POST", "service", b))
    \/ \E i \in 1..Len(calls) : TxBegin(i)
    \/ \E i \in 1..Len(calls), id \in 1..MaxId : Commit(i, id)
    \/ Tick
    \/ Sweep

SpecA == InitA /\ [][NextA]_vars

\* One producer at a time with a store that takes every insert, and the
\* operator's replay runner, invoked between two ingestion calls.
ReplayParams == {T1_upper, T2}

NextR ==
    \/ Idle /\ \E b \in {Body_error, Body_root, Body_tool} :
                  Receive(Req("POST", "service", b))
    \/ \E i \in 1..Len(calls) : TxBegin(i)
    \/ \E i \in 1..Len(calls), id \in 1..MaxId : id \notin Ids(ledger) /\ Commit(i, id)
    \/ Idle /\ Tick
    \/ \E p \in ReplayParams, dry \in BOOLEAN : Idle /\ Replay(p, dry)
    \/ \E k \in 1..Len(replays) : Idle /\ WorkflowStart(k)

SpecR == InitQ /\ [][NextR]_vars

\* One producer at a time logging the steps of one request, and then the
\* operator running the contract tests on its trace; the workflow.start of
\* the request may have been logged already.
Step(e, st) == Obj(JStr(T1_lower), JStr(Txt_n8n), JStr(e), st)

Body_wstart    == Step(workflow_start, JStr(Txt_info))
Body_wcomplete == WithField(Step(workflow_complete, JStr(Txt_ok)), "scan_id", JStr(Scan_A))
Body_werror    == Step(workflow_error, JStr(Txt_error))
Body_werror_msg == WithField(Step(workflow_error, JStr(Txt_error)), "err",
                             JErr(JStr(Txt_boom)))
Body_tcall     == WithField(WithField(Step(tool_call, JStr(Txt_info)),
                                      "meta", Meta_fixture), "scan_id", JStr(Scan_B))
Body_tresult_error == Step(tool_result, JStr(Txt_error))

StepBodies ==
    {Body_wstart, Body_wcomplete, Body_werror, Body_werror_msg, Body_tcall,
     Body_tresult_error}

InitC ==
    /\ ledger \in {<<>>, <<StoredRow(BuildRow(Body_wstart), 1, 0)>>}
    /\ clock = 0
    /\ calls = <<>>
    /\ last = NoStatement
    /\ env_set = TRUE
    /\ connected = {}
    /\ sweeps = <<>>
    /\ replays = <<>>
    /\ NoOthers

\* the steps of one request are logged one after the other: the clock has
\* moved on since the latest event was stored
Stamped == \A k \in 1..Len(ledger) : ledger[k].created_at < clock

NextC ==
    \/ Idle /\ Stamped /\ runs = <<>>
          /\ \E b \in StepBodies : Receive(Req("POST", "service", b))
    \/ \E i \in 1..Len(calls) : TxBegin(i)
    \/ \E i \in 1..Len(calls), id \in 1..MaxId : id \notin Ids(ledger) /\ Commit(i, id)
    \/ Idle /\ ~Stamped /\ Tick
    \/ \E failFast, fixture \in BOOLEAN : Idle /\ Verify(T1_upper, failFast, fixture)

SpecC == InitC /\ [][NextC]_vars

\* The scan-execution route with its callers: any number of requests in
\* flight, for the scans the table holds.
ScanIdVals == {"scan-1", "scan-2"}
ScanBodies ==
    {ScanBody("scan-1", t, "10.0.0.1") :
        t \in {"network", "compliance", "social", "toString"}}
       \cup {ScanBody("scan-2", "vulnerability", "10.0.0.1"),
             ScanBody("scan-1", "network", "undefined"),
             ScanBody("", "network", "10.0.0.1"),
             ScanBody("scan-1", "undefined", "10.0.0.1"),
             ScanNonObj("null"), ScanNonObj("unparsable")}
DbOutcomes == {"ok", "error"}

InitS ==
    /\ ledger = <<>>
    /\ clock = 0
    /\ calls = <<>>
    /\ last = NoStatement
    /\ env_set = TRUE
    /\ connected = {}
    /\ sweeps = <<>>
    /\ replays = <<>>
    /\ runs = <<>>
    /\ scans = [s \in ScanIdVals |-> "pending"]
    /\ posts = <<>>
    /\ artifacts = <<>>

NextS ==
    \/ \E b \in ScanBodies : ScanPost(b)
    \/ \E i \in 1..Len(posts), db \in DbOutcomes : MarkRunning(i, db)
    \/ \E i \in 1..Len(posts), a \in WebhookAnswers : CallWebhook(i, a)
    \/ \E i \in 1..Len(posts), db \in DbOutcomes : MarkCompleted(i, db)
    \/ \E i \in 1..Len(posts), db \in DbOutcomes : CatchError(i, db)

SpecS == InitS /\ [][NextS]_vars

\* One producer at a time, and the callers of sw_event_artifacts: the service
\* role and a caller without it.
ArtifactRoles == {"service_role", "anon"}
ArtifactTraces == {T1_upper, T2}

NextF ==
    \/ Idle /\ \E b \in {Body_error, Body_call} : Receive(Req("POST", "service", b))
    \/ \E i \in 1..Len(calls) : TxBegin(i)
    \/ \E i \in 1..Len(calls), id \in 1..MaxId : id \notin Ids(ledger) /\ Commit(i, id)
    \/ Idle /\ Tick
    \/ \E role \in RawRoles, k \in 1..Len(ledger) : Idle /\ RawDelete(role, k)
    \/ \E role \in ArtifactRoles, id, e \in 1..MaxId, t \in ArtifactTraces :
          Idle /\ InsertArtifact(role, id, e, t)
    \/ \E role \in ArtifactRoles, k \in 1..Len(artifacts), t \in ArtifactTraces :
          Idle /\ UpdateArtifact(role, k, t)
    \/ \E role \in ArtifactRoles, k \in 1..Len(artifacts) :
          Idle /\ DeleteArtifact(role, k)

SpecF == InitQ /\ [][NextF]_vars

\* ------------------------------------------------------------------ claims
\* What the specification says of a submission, stated without the handler's
\* own operators.
HexDigits ==
    {"0","1","2","3","4","5","6","7","8","9",
     "a","b","c","d","e","f","A","B","C","D","E","F"}

IsBlank(s) == \A i \in 1..Len(s) : s[i] \in {" ", "\t", "\n"}

HasUuidForm(s) ==
    /\ Len(s) = 36
    /\ \A i \in 1..36 :
          IF i \in {9, 14, 19, 24} THEN s[i] = "-" ELSE s[i] \in HexDigits

NotAText(v) == v.t # "string" \/ IsBlank(v.s)

ShouldReject(b) ==
    \/ b.kind # "object"
    \/ \E f \in {"trace_id", "source", "event_type"} : NotAText(b.fields[f])
    \/ ~HasUuidForm(b.fields.trace_id.s)

SameLetter(x, y) ==
    x = y \/ \E j \in 1..26 : {x, y} = {UpperLetters[j], LowerLetters[j]}

SameTextAnyCase(a, b) ==
    Len(a) = Len(b) /\ \A i \in 1..Len(a) : SameLetter(a[i], b[i])

HasUpper(s) == \E i \in 1..Len(s), j \in 1..26 : s[i] = UpperLetters[j]

ExpectedStatus(v) ==
    IF v.t = "string" /\ v.s \in Statuses THEN v.s ELSE Txt_info

\* the bodies producers send that the specification turns away
Unacceptable == {r.body : r \in {q \in Requests : ShouldReject(q.body)}}

Done(c) == c.pc = "done"
Acked(c) == c.code = 201
\* the request reached the handler's validation
Judged(c) == c.req.method = "POST"
Rejected(c) == c.code = 400 \/ c.error = "uncaught TypeError"
StoreFailed(c) == c.code = 500 /\ c.error \in {"insert error", "duplicate key value"}
AckedCalls == {i \in 1..Len(calls) : Acked(calls[i])}
RowsOf(c) ==
    {k \in 1..Len(ledger) :
        ledger[k].id = c.id /\ ledger[k] = StoredRow(c.row, c.id, c.now)}

RowSet(rows) == {rows[i] : i \in 1..Len(rows)}
\* a ledger row as an answer with the columns of rows shows it
Shown(r, rows) == IF rows = <<>> THEN r ELSE [f \in DOMAIN rows[1] |-> r[f]]

\* C1: every acknowledged event is still in the ledger with exactly the values
\* written when it was appended, and a raw UPDATE or DELETE, whoever sends it,
\* changes no row.
C1_AppendOnly ==
    /\ \A i \in AckedCalls : RowsOf(calls[i]) # {}
    /\ last.op \in {"UPDATE", "DELETE"} => last.result = "0 rows"

C1_Witness ==
    /\ last.op = "DELETE" /\ last.role = "service_role"
    /\ Len(ledger) = 2 /\ Cardinality(AckedCalls) = 2

\* C2: a submission that fails validation leads to no insert attempt and adds
\* nothing to the ledger: the ledger holds one row per acknowledged request and
\* no row without an event_type.
C2_NoInsertOnReject ==
    /\ \A i \in 1..Len(calls) :
          Judged(calls[i]) /\ calls[i].req.body \in Unacceptable =>
             /\ Done(calls[i]) /\ ~Acked(calls[i])
             /\ calls[i].attempts = 0 /\ calls[i].id = 0
    /\ Len(ledger) = Cardinality(AckedCalls)
    /\ \A k \in 1..Len(ledger) : ledger[k].event_type # <<>>

C2_Witness ==
    \E i, j \in 1..Len(calls) :
       /\ calls[i].req.body = Body_notype /\ calls[i].code = 400
       /\ Acked(calls[j]) /\ Len(ledger) = 1

\* C3: the validator rejects a submission exactly when trace_id, source or
\* event_type is absent, not a string or blank, or trace_id is not of the
\* 8-4-4-4-12 hexadecimal form in either case.
C3_RejectsExactly ==
    \A i \in 1..Len(calls) :
       Judged(calls[i]) => (Rejected(calls[i]) <=> ShouldReject(calls[i].req.body))

C3_Witness ==
    \E i \in 1..Len(calls) :
       /\ calls[i].req.body =
             Obj(JStr(T_newline), JStr(Txt_n8n_padded), JStr(tool_call_padded), JNull)
       /\ calls[i].code = 400

\* C4: every stored trace_id is the lowercase form of the submitted one, and a
\* timeline query returns the events of the trace whatever the case its
\* trace_id is spelled in.
C4_LowercaseRoundTrip ==
    /\ \A k \in 1..Len(ledger) : ~HasUpper(ledger[k].trace_id)
    /\ \A i \in AckedCalls : \E k \in 1..Len(ledger) :
          /\ ledger[k].id = calls[i].id
          /\ SameTextAnyCase(ledger[k].trace_id, calls[i].req.body.fields.trace_id.s)
    /\ last.op = "v_trace_timeline" /\ last.result = "ok" =>
          {last.rows[n] : n \in 1..Len(last.rows)}
             = {Shown(ledger[k], last.rows) : k \in {j \in 1..Len(ledger) :
                                      SameTextAnyCase(ledger[j].trace_id, last.param)}}

C4_Witness ==
    /\ last.op = "v_trace_timeline" /\ last.param = T1_mixed /\ Len(last.rows) = 1
    /\ Len(ledger) = 2
    /\ \E i \in AckedCalls : calls[i].req.body = Body_error

\* C5: every stored status is info, ok or error: one of the three is stored
\* as submitted, anything else or nothing as info, and no submission that is
\* otherwise valid is rejected for its status.
C5_StatusNormalised ==
    /\ \A k \in 1..Len(ledger) : ledger[k].status \in Statuses
    /\ \A i \in AckedCalls : \E k \in 1..Len(ledger) :
          /\ ledger[k].id = calls[i].id
          /\ ledger[k].status = ExpectedStatus(calls[i].req.body.fields.status)
    /\ \A i \in 1..Len(calls) :
          Judged(calls[i]) /\ ~ShouldReject(calls[i].req.body) => ~Rejected(calls[i])

C5_Witness ==
    \E i \in AckedCalls :
       /\ calls[i].req.body.fields.status = JStr(Txt_ERROR)
       /\ ledger[1].status = Txt_info

\* C6: every ingestion request ends in one of three outcomes: 201 exactly
\* when one event with the returned id was added, 400 when validation fails,
\* 500 when the store fails; nothing is added in the last two.
C6_OneOutcome ==
    \A i \in 1..Len(calls) :
       Judged(calls[i]) /\ Done(calls[i]) =>
          /\ calls[i].code \in {201, 400, 500}
          /\ Acked(calls[i]) <=> Cardinality({k \in 1..Len(ledger) : ledger[k].id = calls[i].id}) = 1
          /\ ShouldReject(calls[i].req.body) <=> calls[i].code = 400
          /\ calls[i].code = 500 =>
                StoreFailed(calls[i]) \/ calls[i].error = "Server configuration error."

\* C7: an event is stored only for a caller that presented the service
\* credential.
C7_ServiceCredentialOnly ==
    \A i \in AckedCalls : calls[i].req.cred = "service"

\* C8: a read through the timeline view, the recent-errors view or the
\* errors-since function by a caller without the admin claim returns no event.
C8_NoDataWithoutAdmin ==
    last.op \in ReadOps /\ last.role \in {"anon", "authenticated"} => last.rows = <<>>

\* C9 as claimed: every valid call, under any interleaving, is acknowledged,
\* the acknowledged ids are pairwise distinct and the ledger holds exactly the
\* acknowledged events.
C9_AllAcknowledged ==
    /\ \A i \in 1..Len(calls) :
          Judged(calls[i]) /\ ~ShouldReject(calls[i].req.body) /\ env_set /\ Done(calls[i])
             => Acked(calls[i])
    /\ \A i, j \in AckedCalls : i # j => calls[i].id # calls[j].id
    /\ Len(ledger) = Cardinality(AckedCalls)

\* C9 as amended: under any interleaving every valid call is acknowledged
\* unless the store fails its insert; the acknowledged ids are pairwise
\* distinct, and the ledger holds each acknowledged event exactly once and
\* nothing else.
C9_DistinctIds ==
    /\ \A i \in 1..Len(calls) :
          Judged(calls[i]) /\ calls[i].req.body \notin Unacceptable /\ env_set
             /\ Done(calls[i])
             => Acked(calls[i]) \/ (StoreFailed(calls[i]) /\ calls[i].attempts = 1)
    /\ \A i, j \in AckedCalls : i # j => calls[i].id # calls[j].id
    /\ \A i \in AckedCalls : Cardinality(RowsOf(calls[i])) = 1
    /\ Len(ledger) = Cardinality(AckedCalls)

\* two calls in flight together: the one received second was inserted first
C9_Witness ==
    /\ Len(calls) = 2 /\ Cardinality(AckedCalls) = 2
    /\ Len(ledger) = 2 /\ ledger[1].id = calls[2].id

\* C10: the created_at values of one trace, in insertion order, never decrease.
C10_CreatedAtMonotone ==
    \A k1, k2 \in 1..Len(ledger) :
       k1 < k2 /\ ledger[k1].trace_id = ledger[k2].trace_id
          => ledger[k1].created_at <= ledger[k2].created_at

\* the ledger rows a read has to choose from, as indexes
TraceRows(u) == {k \in 1..Len(ledger) : ledger[k].trace_id = u}
AgeMinutes(r) == (clock - r.created_at) * MinutesPerTick
ErrorsWithin(n) ==
    {k \in 1..Len(ledger) : ledger[k].status = Txt_error /\ AgeMinutes(ledger[k]) <= n}

\* a step in which the database answers the read op: the ledger and the clock
\* of the step are those the answer was computed from
Answers(op) == last'.op = op /\ UNCHANGED <<ledger, clock, calls>>

TimelineAsClaimed ==
    /\ RowSet(last.rows) =
          {Shown(ledger[k], last.rows) : k \in TraceRows(toLowerCase(last.param))}
    /\ Len(last.rows) = Cardinality(TraceRows(toLowerCase(last.param)))
    /\ \A i, j \in 1..Len(last.rows) :
          i < j =>
             \/ last.rows[i].created_at < last.rows[j].created_at
             \/ /\ last.rows[i].created_at = last.rows[j].created_at
                /\ last.rows[i].id < last.rows[j].id

\* C11: the timeline of a trace is exactly the ledger's events of that trace,
\* by created_at ascending and, among events of one created_at, by id
\* ascending: one ledger, one sequence.
C11_TimelineOrder ==
    [][Answers("v_trace_timeline") /\ last'.result = "ok" => TimelineAsClaimed']_vars

WindowAsClaimed(n) ==
    /\ last.result = "ok"
    /\ RowSet(last.rows) = {Shown(ledger[k], last.rows) : k \in ErrorsWithin(n)}
    /\ Len(last.rows) = Cardinality(ErrorsWithin(n))
    /\ \A i, j \in 1..Len(last.rows) :
          i < j => last.rows[i].created_at >= last.rows[j].created_at

\* C12: the error window query with a window of N minutes returns exactly the
\* ledger's events of status error created within the last N minutes, newest
\* first: with the default 15 minutes an error 10 minutes old is returned and
\* one 20 minutes old is not, and no info or ok event is ever returned.
C12_ErrorWindow ==
    [][Answers("sw_event_log_errors_since") => WindowAsClaimed(last.minutes)']_vars

C12_Witness ==
    /\ last.op = "sw_event_log_errors_since" /\ last.minutes = 15
    /\ clock = MaxClock
    /\ Len(last.rows) = 1 /\ AgeMinutes(last.rows[1]) = MinutesPerTick
    /\ \E k \in 1..Len(ledger) :
          ledger[k].status = Txt_error /\ AgeMinutes(ledger[k]) = 2 * MinutesPerTick

\* C13: the window of the error window query is never shorter than one
\* minute: asked for 0 or fewer minutes, the query is refused or answers as
\* for one minute.
C13_MinimumWindow ==
    [][Answers("sw_event_log_errors_since") /\ last'.minutes < 1 =>
          last'.result # "ok" \/ WindowAsClaimed(1)']_vars

\* C14: when the store fails an append, the call is answered with a server
\* error, the request makes no second insert attempt, and the ledger is left
\* as it was: it only ever holds whole events of acknowledged calls.
C14_FailedAppend ==
    /\ [](\A i \in 1..Len(calls) :
            /\ calls[i].attempts <= 1
            /\ StoreFailed(calls[i]) =>
                  /\ Done(calls[i]) /\ calls[i].code = 500
                  /\ calls[i].attempts = 1 /\ RowsOf(calls[i]) = {})
    /\ [](\A k \in 1..Len(ledger) : \E i \in AckedCalls : k \in RowsOf(calls[i]))
    /\ [][(\E i \in 1..Len(calls) : ~StoreFailed(calls[i]) /\ StoreFailed(calls'[i]))
            => ledger' = ledger]_vars

C14_Witness ==
    /\ Len(ledger) = 1
    /\ \E i, j \in 1..Len(calls) :
          /\ Acked(calls[i])
          /\ StoreFailed(calls[j]) /\ calls[j].error = "duplicate key value"
          /\ calls[j].req.body = calls[i].req.body

\* C15: every POST whose body is not a valid event (no JSON, or any JSON value
\* that is no object with the required fields: null, an array, a number, a
\* string) gets the validation error, 400 with an error text, and never a
\* server error or an exception.
C15_AlwaysValidationError ==
    \A i \in 1..Len(calls) :
       calls[i].req.method = "POST" /\ ShouldReject(calls[i].req.body) =>
          /\ Done(calls[i])
          /\ calls[i].code = 400 /\ calls[i].error # ""
          /\ calls[i].error # "uncaught TypeError"

\* a step that is one run of the alert workflow
Swept == Len(sweeps') = Len(sweeps) + 1
LastSweep == sweeps[Len(sweeps)]
Attempted(s) == {c \in Channels : s.dispatch[c] \in {"sent", "failed"}}

\* C16: every run of the alert sweep asks the error window query once and
\* notifies exactly when rows came back; it remembers nothing, so each run
\* reports every error event that lies in the window at that time, reported
\* before or not, and none that has aged out.
C16_SweepStateless ==
    [][Swept => /\ LastSweep'.queries = 1
                /\ RowSet(LastSweep'.rows) =
                      {Shown(ledger'[k], LastSweep'.rows) :
                          k \in ErrorsWithin(ALERT_WINDOW_MINUTES)'}
                /\ Len(LastSweep'.rows) = Cardinality(ErrorsWithin(ALERT_WINDOW_MINUTES)')
                /\ LastSweep'.rows = <<>> <=> LastSweep'.dispatch = NoDispatch
                /\ LastSweep'.rows # <<>> => Attempted(LastSweep') = connected]_vars

C16_Witness ==
    /\ Len(sweeps) = 3 /\ Len(ledger) = 1 /\ connected # {}
    /\ sweeps[1].rows # <<>> /\ sweeps[2].rows = sweeps[1].rows
    /\ sweeps[1].at < sweeps[2].at
    /\ Attempted(sweeps[1]) = connected /\ Attempted(sweeps[2]) = connected
    /\ sweeps[3].rows = <<>> /\ Attempted(sweeps[3]) = {}

\* C17: in a run with rows to report every connected channel is tried,
\* whether or not another channel failed; a failed channel does not fail the
\* run and touches neither the ledger nor any ingestion call.
C17_ChannelsIsolated ==
    [][Swept => /\ LastSweep'.rows # <<>> => Attempted(LastSweep') = connected
                /\ LastSweep'.result = "success"
                /\ UNCHANGED <<ledger, calls>>]_vars

C17_Witness ==
    /\ connected = Channels
    /\ \E k \in 1..Len(sweeps) :
          sweeps[k].dispatch["slack"] = "failed" /\ sweeps[k].dispatch["email"] = "sent"

\* a step that is one invocation of the replay runner
Replayed == Len(replays') = Len(replays) + 1
LastReplay == replays[Len(replays)]
\* the ledger's events of the trace the latest replay was asked for
ReplayTraceRows == TraceRows(toLowerCase(LastReplay.trace))
HasRequest(r) == r.outcome \in {"dry-run", "sent", "failed"}
ReqBearing(timeline) == {i \in 1..Len(timeline) : timeline[i].req # JNull}

\* C18: the request a replay of trace T sends or prints carries trace_id T as
\* given, the workflow's entry keeps it, and the event the replayed run logs
\* is stored under the trace_id of the original events.
C18_TraceIdPreserved ==
    \A k \in 1..Len(replays) :
       /\ HasRequest(replays[k]) =>
             /\ replays[k].request.trace_id = JStr(replays[k].trace)
             /\ SameTextAnyCase(replays[k].trace, replays[k].timeline[1].trace_id)
       /\ replays[k].run # 0 =>
             /\ calls[replays[k].run].req.body.fields.trace_id = JStr(replays[k].trace)
             /\ Done(calls[replays[k].run]) /\ Acked(calls[replays[k].run]) =>
                   \E n \in 1..Len(ledger) :
                      /\ ledger[n].id = calls[replays[k].run].id
                      /\ ledger[n].trace_id = replays[k].timeline[1].trace_id

C18_Witness ==
    \E k \in 1..Len(replays) :
       /\ replays[k].run # 0 /\ HasUpper(replays[k].trace)
       /\ Acked(calls[replays[k].run])
       /\ Len(ledger) = 2 /\ ledger[1].trace_id = ledger[2].trace_id

\* C19: an invocation of the replay runner posts nothing when the trace has
\* no event (NotFoundError), when no event of it carries a req
\* (IncompleteTraceError) or in dry-run mode; otherwise it posts at most once
\* and does not retry.
C19_AtMostOnePost ==
    /\ [](\A k \in 1..Len(replays) :
            /\ replays[k].posts <= 1
            /\ replays[k].timeline = <<>> =>
                  replays[k].outcome = "NotFoundError" /\ replays[k].posts = 0
            /\ replays[k].timeline # <<>> /\ ReqBearing(replays[k].timeline) = {} =>
                  replays[k].outcome = "IncompleteTraceError" /\ replays[k].posts = 0
            /\ replays[k].dry => replays[k].posts = 0
            /\ replays[k].run # 0 => replays[k].posts = 1)
    /\ [][Replayed =>
            (LastReplay'.timeline = <<>>
                <=> ReplayTraceRows' = {})]_vars

C19_Witness ==
    /\ Len(replays) = 1 /\ Len(ledger) = 2
    /\ replays[1].outcome = "IncompleteTraceError" /\ replays[1].posts = 0
    /\ Len(replays[1].timeline) = 1 /\ ~replays[1].dry

Failing(r) == {c \in Checks : r.report[c] = "FAILED"}
StartAndComplete(rows) ==
    /\ Len(rows) = 2
    /\ \E i, j \in 1..2 :
          rows[i].event_type = workflow_start /\ rows[j].event_type = workflow_complete

\* C21: a run without fail-fast leaves no check out: each of the nine is
\* reported passed, failed or skipped, with the outcome it has on its own;
\* the overall result of any run is PASS exactly when no check is reported
\* failed; and for a trace of one workflow.start and one workflow.complete,
\* run without fixture mode against a healthy sw-log, check 3 is the only
\* failing check.
C21_EveryCheckReported ==
    \A k \in 1..Len(runs) :
       LET r == runs[k]
       IN /\ ~r.failFast =>
                /\ \A c \in Checks : r.report[c] \in {"PASSED", "FAILED", "SKIPPED"}
                /\ r.report = Verdict(r.rows, r.fixture, r.code)
                /\ r.report[8] = "SKIPPED" <=> ~r.fixture
          /\ r.overall \in {"PASS", "FAIL"}
          /\ r.overall = "PASS" <=> Failing(r) = {}
          /\ StartAndComplete(r.rows) /\ ~r.fixture /\ r.code # 500
                => Failing(r) = {3}

C21_Witness ==
    \E k \in 1..Len(runs) :
       /\ ~runs[k].failFast /\ ~runs[k].fixture /\ runs[k].code = 201
       /\ StartAndComplete(runs[k].rows)
       /\ Failing(runs[k]) = {3}
       /\ runs[k].report[9] = "PASSED"
       /\ runs[k].overall = "FAIL"

Ran == Len(runs') = Len(runs) + 1
LastRun == runs[Len(runs)]
RunTraceRows == TraceRows(toLowerCase(LastRun.trace))
IsHealthEvent(r) == r.event_type = health_check /\ r.source = Txt_contract_tests

Starts(rows) == {i \in 1..Len(rows) : rows[i].event_type = workflow_start}
Terminals(rows) ==
    {i \in 1..Len(rows) : rows[i].event_type \in {workflow_complete, workflow_error}}

\* C23: in a run that evaluates them, check 2 passes exactly when the trace
\* has one workflow.start event and no more, and check 4 passes exactly when
\* it has one terminal event and no more.
C23_ExactlyOne ==
    \A k \in 1..Len(runs) :
       ~runs[k].failFast =>
          /\ runs[k].report[2] = "PASSED" <=> Cardinality(Starts(runs[k].rows)) = 1
          /\ runs[k].report[4] = "PASSED" <=> Cardinality(Terminals(runs[k].rows)) = 1

NoMessage(r) ==
    \/ r.err = JNull
    \/ "message" \notin DOMAIN r.err
    \/ r.err.message \in {Absent, JNull, JStr(<<>>)}
ErrorsWithoutMessage(rows) ==
    {i \in 1..Len(rows) : rows[i].status = Txt_error /\ NoMessage(rows[i])}

\* C24: in a run that evaluates it, check 5 fails exactly when the trace has
\* an event of status error whose err.message is null or empty, whatever the
\* event_type of that event; so it fails for a trace that holds only a
\* workflow.error event without err.message.
C24_ErrorsCarryMessage ==
    \A k \in 1..Len(runs) :
       ~runs[k].failFast =>
          (runs[k].report[5] = "FAILED" <=> ErrorsWithoutMessage(runs[k].rows) # {})

ScanIds(rows) == {rows[i].scan_id : i \in 1..Len(rows)} \ {JNull}

\* C25: in a run that evaluates it, check 6 fails exactly when two events of
\* the trace carry different non-null scan_id values; events without a
\* scan_id never make it fail.
C25_ScanIdConsistent ==
    \A k \in 1..Len(runs) :
       ~runs[k].failFast =>
          (runs[k].report[6] = "FAILED" <=> Cardinality(ScanIds(runs[k].rows)) > 1)

C25_Witness ==
    \E k \in 1..Len(runs) :
       /\ ~runs[k].failFast
       /\ ScanIds(runs[k].rows) = {JStr(Scan_A), JStr(Scan_B)}
       /\ \E i \in 1..Len(runs[k].rows) : runs[k].rows[i].scan_id = JNull
       /\ runs[k].report[6] = "FAILED"

Returns(i) == posts[i].pc \in {"mark_completed", "catch"} /\ posts'[i].pc = "done"
CallsOut(i) == posts'[i].hooks = posts[i].hooks + 1
AnsweredSuccess(p) == p.answer \in {"2xx json", "2xx text"}

\* C26: when the handler of a request that passed validation returns, the
\* scan is completed if the webhook answered with a success status and
\* failed in every other case, never running; and the scan is running when
\* the webhook is called.
C26_SettledOnReturn ==
    [][\A i \in 1..Len(posts) :
          /\ Returns(i) =>
                scans'[posts[i].body.scanId] =
                   IF AnsweredSuccess(posts[i]) THEN "completed" ELSE "failed"
          /\ posts[i].pc = "fetch" /\ CallsOut(i) =>
                scans[posts[i].body.scanId] = "running"]_vars

ConfiguredTypes == {t \in DOMAIN N8N_WEBHOOKS : N8N_WEBHOOKS[t] # ""}
Lacking(b) ==
    \/ b.scanId \in {"", "undefined"}
    \/ b.scanType \in {"", "undefined"}
    \/ b.target \in {"", "undefined"}
    \/ b.scanType \notin ConfiguredTypes

\* C27: a request without scanId, scanType or target, or with a scanType
\* that has no configured webhook, is answered 400 with success: false,
\* updates no scan and calls no webhook.
C27_TurnedAway ==
    \A i \in 1..Len(posts) :
       Lacking(posts[i].body) =>
          /\ posts[i].pc = "done"
          /\ posts[i].code = 400 /\ ~posts[i].success
          /\ posts[i].updates = 0 /\ posts[i].hooks = 0

\* C28: whatever requests arrive for a scan and however their handlers
\* interleave, a status of completed or failed is final: it never becomes
\* running again and neither of the two replaces the other.
C28_SettledIsFinal ==
    [][\A s \in DOMAIN scans :
          scans[s] \in {"completed", "failed"} => scans'[s] = scans[s]]_vars

IsNonNegativeInteger(v) ==
    v.t = "number" /\ "int" \in DOMAIN v /\ v.int \in Nat

\* C29: the duration_ms of every stored event is null or a non-negative
\* integer, whatever duration_ms was submitted.
C29_DurationNonNegative ==
    \A k \in 1..Len(ledger) :
       ledger[k].duration_ms = JNull \/ IsNonNegativeInteger(ledger[k].duration_ms)

EventOf(a) == {k \in 1..Len(ledger) : ledger[k].id = a.event_id}

\* C30: every artifact's event_id is the id of an event of the ledger and
\* the artifact's trace_id is the trace_id of that event; and an artifact,
\* once written, is never changed or removed.
C30_ArtifactsFollowEvents ==
    /\ [](\A j \in 1..Len(artifacts) :
            /\ EventOf(artifacts[j]) # {}
            /\ \A k \in EventOf(artifacts[j]) :
                  ledger[k].trace_id = artifacts[j].trace_id)
    /\ [][SubSeq(artifacts', 1, Len(artifacts)) = artifacts]_vars
====
